---- MODULE Spec2Model ----
(***************************************************************************)
(* Model of animal_spharm.SpharmInterface: the conversions between a       *)
(* labeled (xarray.DataArray) array and the plain (lat, lon, records)      *)
(* numpy array that spharm/windspharm work on.                             *)
(*                                                                         *)
(* A plain array is a record [shape, data]: data is the sequence of the    *)
(* elements in C (row-major) order, which is the order numpy's reshape     *)
(* reads and writes.  A labeled array adds dims (axis names, in axis       *)
(* order) and coords (axis name -> coordinate values).  Axis numbers are   *)
(* 0-based as in the source; a missing value (what xarray masks) is NaN.   *)
(* An exception is the record [exc |-> <name>]; Python's None is the       *)
(* record [none |-> TRUE]; Python's False, as a count, is 0.               *)
(***************************************************************************)
EXTENDS Integers, Sequences, FiniteSets, TLC

VARIABLES A, pc, arg, ret, self

vars == <<A, pc, arg, ret, self>>

LAT_STR == "lat"
LON_STR == "lon"
TIME_STR == "time"
P_STR == "p"

\* ---- bounds of the model ------------------------------------------------
MaxLen == 2        \* longest axis of an array of Spec
MaxSize == 8       \* most entries of an array of Spec
MaxMaskPos == 2    \* the position of the masked entry, if any
MaxLatLen == 5     \* longest latitude coordinate of SpecLat
MaxCount == 2      \* largest n_lat / n_lon argument

\* the missing value (numpy.nan), masked by to_masked_array
NaN == -1

None == [none |-> TRUE]
IsNone(x) == "none" \in DOMAIN x
Raise(name) == [exc |-> name]
IsExc(x) == "exc" \in DOMAIN x

\* ---- numpy: shapes and C order ------------------------------------------
RECURSIVE Prod(_)
Prod(s) == IF s = <<>> THEN 1 ELSE Head(s) * Prod(Tail(s))

Stride(shape, i) == Prod(SubSeq(shape, i + 1, Len(shape)))

\* multi-index (0-based entries) of the 0-based flat position p
Unravel(p, shape) ==
    [i \in 1..Len(shape) |-> (p \div Stride(shape, i)) % shape[i]]

RECURSIVE RavelFrom(_, _, _)
RavelFrom(idx, shape, i) ==
    IF i > Len(shape) THEN 0
    ELSE idx[i] * Stride(shape, i) + RavelFrom(idx, shape, i + 1)

\* 0-based flat position of a multi-index
Ravel(idx, shape) == RavelFrom(idx, shape, 1)

\* ndarray.transpose(axes): axis i of the result is axis axes[i] of a
transpose(a, axes) ==
    LET n == Len(a.shape)
        newshape == [i \in 1..n |-> a.shape[axes[i] + 1]]
        inv(j) == CHOOSE i \in 1..n : axes[i] + 1 = j
    IN  [shape |-> newshape,
         data  |-> [p \in 1..Len(a.data) |->
                      LET idx == Unravel(p - 1, newshape)
                          src == [j \in 1..n |-> idx[inv(j)]]
                      IN  a.data[Ravel(src, a.shape) + 1]]]

\* numpy.rollaxis(a, axis, start)
rollaxis(a, axis, start) ==
    LET n  == Len(a.shape)
        ax == IF axis < 0 THEN axis + n ELSE axis
        s0 == IF start < 0 THEN start + n ELSE start
    IN  IF ~(0 <= ax /\ ax < n) \/ ~(0 <= s0 /\ s0 < n + 1)
        THEN Raise("AxisError")
        ELSE LET st   == IF ax < s0 THEN s0 - 1 ELSE s0
                 rest == [i \in 1..(n - 1) |-> IF i - 1 < ax THEN i - 1 ELSE i]
                 axes == SubSeq(rest, 1, st) \o <<ax>> \o SubSeq(rest, st + 1, n - 1)
             IN  IF ax = st THEN a ELSE transpose(a, axes)

\* ndarray.swapaxes(axis1, axis2)
swapaxes(a, axis1, axis2) ==
    LET n == Len(a.shape)
    IN  transpose(a, [i \in 1..n |-> IF i - 1 = axis1 THEN axis2
                                     ELSE IF i - 1 = axis2 THEN axis1
                                     ELSE i - 1])

\* a[::-1]: axis 0 reversed
reverse0(a) ==
    [shape |-> a.shape,
     data  |-> [p \in 1..Len(a.data) |->
                  LET idx == Unravel(p - 1, a.shape)
                      src == [idx EXCEPT ![1] = a.shape[1] - 1 - idx[1]]
                  IN  a.data[Ravel(src, a.shape) + 1]]]

\* ndarray.reshape(newshape); one entry of newshape may be -1
reshape(a, newshape) ==
    LET n     == Len(a.data)
        known == Prod([i \in 1..Len(newshape) |->
                         IF newshape[i] = -1 THEN 1 ELSE newshape[i]])
        infer == \E i \in 1..Len(newshape) : newshape[i] = -1
    IN  IF infer
        THEN IF known = 0 \/ n % known # 0
             THEN Raise("ValueError")
             ELSE [shape |-> [i \in 1..Len(newshape) |->
                                IF newshape[i] = -1 THEN n \div known
                                ELSE newshape[i]],
                   data  |-> a.data]
        ELSE IF known # n
             THEN Raise("ValueError")
             ELSE [shape |-> newshape, data |-> a.data]

\* ---- xarray -------------------------------------------------------------
\* xr.DataArray(data, dims=dims, coords=coords): the data must have one axis
\* per name, each as long as the coordinate of that name
DataArray(a, dims, coords) ==
    IF Len(a.shape) # Len(dims)
       \/ \E i \in 1..Len(dims) : Len(coords[dims[i]]) # a.shape[i]
    THEN Raise("ValueError")
    ELSE [dims |-> dims, coords |-> coords, shape |-> a.shape, data |-> a.data]

\* DataArray.values
values(arr) == [shape |-> arr.shape, data |-> arr.data]

\* DataArray.get_axis_num(name)
get_axis_num(arr, name) == (CHOOSE i \in 1..Len(arr.dims) : arr.dims[i] = name) - 1

\* DataArray.to_masked_array(): the missing values are the masked ones
to_masked_array(arr) ==
    [shape |-> arr.shape, data |-> arr.data,
     mask  |-> [p \in 1..Len(arr.data) |-> arr.data[p] = NaN]]

\* numpy.ma.filled that leaves the masked entries as they are
ma_filled_kept(ma, fill_value) ==
    [shape |-> ma.shape, data |-> ma.data]

\* numpy.ma.filled(a, fill_value)
ma_filled(ma, fill_value) ==
    [shape |-> ma.shape,
     data  |-> [p \in 1..Len(ma.data) |->
                  IF ma.mask[p] THEN fill_value ELSE ma.data[p]]]

\* SpharmInterface.fill_mask
fill_mask(arr, fill_value) ==
    LET arr_filled == ma_filled(to_masked_array(arr), fill_value)
    IN  DataArray(arr_filled, arr.dims, arr.coords)

\* numpy.ma.array(a, mask=mask), for the scalar masks __init__ can store
ma_array(a, mask) ==
    [shape |-> a.shape, data |-> a.data,
     mask  |-> [p \in 1..Len(a.data) |-> mask]]

\* xr.DataArray(<masked array>, ...): masked entries become missing values
DataArrayMa(ma, dims, coords) ==
    DataArray([shape |-> ma.shape,
               data  |-> [p \in 1..Len(ma.data) |->
                            IF ma.mask[p] THEN NaN ELSE ma.data[p]]],
              dims, coords)

\* arr[LAT_STR]: a DataArray gives its coordinate, a plain numpy array
\* rejects a string index
getitem(arr, key) ==
    IF "dims" \in DOMAIN arr
    THEN IF key \in DOMAIN arr.coords
         THEN [values |-> arr.coords[key]]
         ELSE Raise("KeyError")
    ELSE Raise("IndexError")

Reverse(s) == [i \in 1..Len(s) |-> s[Len(s) + 1 - i]]

\* DataArray.isel(lat=slice(-1, None, -1))
isel_reversed(arr, name) ==
    LET ax == get_axis_num(arr, name) + 1
    IN  [dims   |-> arr.dims,
         shape  |-> arr.shape,
         coords |-> [arr.coords EXCEPT ![name] = Reverse(arr.coords[name])],
         data   |-> [p \in 1..Len(arr.data) |->
                       LET idx == Unravel(p - 1, arr.shape)
                           src == [idx EXCEPT ![ax] = arr.shape[ax] - 1 - idx[ax]]
                       IN  arr.data[Ravel(src, arr.shape) + 1]]]

\* ---- SpharmInterface ----------------------------------------------------
\* the orientation test on the sign of the differences: all(diff > 0)
in_south_to_north_increasing(lat) ==
    \A i \in 1..(Len(lat) - 1) : lat[i + 1] - lat[i] > 0

\* all(lat[1:] - lat[:-1]): every successive difference is non-zero
in_south_to_north(lat) ==
    \A i \in 1..(Len(lat) - 1) : lat[i + 1] - lat[i] # 0

\* SpharmInterface.flag_flip_lat; the result is [val |-> <bool>] or an exception
flag_flip_lat(arr, out_north_to_south) ==
    LET got == getitem(arr, LAT_STR)
    IN  IF IsExc(got) THEN got
        ELSE LET lat == got.values
             IN  [val |-> \/ (in_south_to_north(lat) /\ out_north_to_south)
                          \/ (~in_south_to_north(lat) /\ ~out_north_to_south)]

\* SpharmInterface.flip_lat_order
flip_lat_order(arr, out_north_to_south) ==
    LET flag == flag_flip_lat(arr, out_north_to_south)
    IN  IF IsExc(flag) THEN flag
        ELSE IF flag.val THEN isel_reversed(arr, LAT_STR)
        ELSE arr

\* SpharmInterface.format_axes_for_spharm
format_axes_for_spharm(arr) ==
    LET ax_lat == get_axis_num(arr, LAT_STR)
        ax_lon == get_axis_num(arr, LON_STR)
        inner  == rollaxis(values(arr), ax_lat, 0)
        rolled == IF IsExc(inner) THEN inner ELSE rollaxis(inner, ax_lon, 1)
    IN  IF IsExc(rolled) THEN rolled
        ELSE reshape(rolled, <<rolled.shape[1], rolled.shape[2], -1>>)

\* SpharmInterface.prep_for_spharm
prep_for_spharm(arr) ==
    IF IsNone(arr) THEN None
    ELSE LET filled  == fill_mask(arr, 0)
             flipped == IF IsExc(filled) THEN filled
                        ELSE flip_lat_order(filled, TRUE)
         IN  IF IsExc(flipped) THEN flipped
             ELSE format_axes_for_spharm(flipped)

\* an attribute __init__ did not set
Unset == [unset |-> TRUE]

\* SpharmInterface.__init__(u, v, n_lat, n_lon), the other arguments at their
\* defaults: the new object's attributes, or the exception raised
init(u, v, n_lat, n_lon) ==
    LET mask == IF ~IsNone(u) /\ "mask" \in DOMAIN u.coords
                THEN u.coords["mask"] ELSE FALSE
    IN  IF ~IsNone(u) /\ ~IsNone(v)
        THEN LET su == prep_for_spharm(u)
                 sv == prep_for_spharm(v)
             IN  IF IsExc(su) THEN su
                 ELSE IF IsExc(sv) THEN sv
                 ELSE [_u |-> u, _v |-> v, mask |-> mask, u |-> su, v |-> sv,
                       n_lat |-> su.shape[1], n_lon |-> su.shape[2]]
        ELSE IF n_lat = 0 /\ n_lon = 0
             THEN Raise("ValueError")
             ELSE [_u |-> u, _v |-> v, mask |-> mask, u |-> Unset, v |-> Unset,
                   n_lat |-> n_lat, n_lon |-> n_lon]

\* the lengths of the axes of arr_orig other than 'lat' and 'lon', in order
RECURSIVE shape_other_from(_, _, _, _)
shape_other_from(shape, ax_lat, ax_lon, n) ==
    IF n >= Len(shape) THEN <<>>
    ELSE (IF n = ax_lat \/ n = ax_lon THEN <<>> ELSE <<shape[n + 1]>>)
         \o shape_other_from(shape, ax_lat, ax_lon, n + 1)

\* the flip decision of to_xarray taken for the south-to-north target
to_xarray_flag_south(arr_orig) == flag_flip_lat(arr_orig, FALSE)

\* the flip decision of to_xarray
to_xarray_flag(arr_orig) == flag_flip_lat(arr_orig, TRUE)

\* SpharmInterface.to_xarray up to the flip: the collapsed axis re-expanded
\* and the axes rolled back
to_xarray_rolled(ndarray, arr_orig) ==
    LET ax_lat_orig == get_axis_num(arr_orig, LAT_STR)
        ax_lon_orig == get_axis_num(arr_orig, LON_STR)
        shape_other_dims ==
            shape_other_from(arr_orig.shape, ax_lat_orig, ax_lon_orig, 0)
        expanded == reshape(ndarray, <<ndarray.shape[1], ndarray.shape[2]>>
                                     \o shape_other_dims)
        rolled   == IF IsExc(expanded) THEN expanded
                    ELSE rollaxis(expanded, 2, 0)
    IN  IF IsExc(rolled) THEN rolled
        ELSE IF Len(arr_orig.shape) = 4 THEN rollaxis(rolled, -1, 1)
        ELSE rolled

\* SpharmInterface.to_xarray(ndarray, arr_orig)
to_xarray(obj, ndarray, arr_orig_arg) ==
    LET arr_orig == IF IsNone(arr_orig_arg) THEN obj._u ELSE arr_orig_arg
    IN  IF IsNone(arr_orig) \/ IsNone(ndarray) THEN Raise("AttributeError")
        ELSE
        LET ax_lat_orig == get_axis_num(arr_orig, LAT_STR)
            rolled  == to_xarray_rolled(ndarray, arr_orig)
            flag    == to_xarray_flag(arr_orig)
            arr_new == IF IsExc(rolled) THEN rolled
                       ELSE IF IsExc(flag) THEN flag
                       ELSE IF flag.val
                            THEN swapaxes(
                                   reverse0(swapaxes(rolled, ax_lat_orig, 0)),
                                   ax_lat_orig, 0)
                            ELSE rolled
        IN  IF IsExc(arr_new) THEN arr_new
            ELSE DataArrayMa(ma_array(arr_new, obj.mask),
                             arr_orig.dims, arr_orig.coords)

\* ---- the inputs ---------------------------------------------------------
AllDims == {LAT_STR, LON_STR, TIME_STR, P_STR}
LatVals == {-45, 45}
FillValues == {0, 7, NaN}

Injective(s) == \A i, j \in 1..Len(s) : s[i] = s[j] => i = j

\* every order of 'lat', 'lon' and zero, one or two of the other axes
DimOrders ==
    {s \in UNION {[1..n -> AllDims] : n \in 2..4} :
        /\ Injective(s)
        /\ \E i \in 1..Len(s) : s[i] = LAT_STR
        /\ \E i \in 1..Len(s) : s[i] = LON_STR}

Min(a, b) == IF a < b THEN a ELSE b

\* coordinate of an axis other than latitude
Ticks(n) == [i \in 1..n |-> 10 * i]

\* the labeled array with the given axes, latitude coordinate and masked
\* position m (0: none), whose value at flat position p is base + p
MkArray(dims, shape, lat, m, base) ==
    [dims   |-> dims,
     shape  |-> shape,
     coords |-> [d \in {dims[i] : i \in 1..Len(dims)} |->
                   IF d = LAT_STR THEN lat
                   ELSE Ticks(shape[CHOOSE i \in 1..Len(dims) : dims[i] = d])],
     data   |-> [p \in 1..Prod(shape) |-> IF p = m THEN NaN ELSE base + p]]

LatPos(dims) == CHOOSE i \in 1..Len(dims) : dims[i] = LAT_STR

Arrays ==
    UNION {UNION {UNION {
        {MkArray(dims, shape, lat, m, 0) :
            m \in {0, Min(MaxMaskPos, Prod(shape))}} :
        lat \in [1..shape[LatPos(dims)] -> LatVals]} :
        shape \in {sh \in [1..Len(dims) -> 1..MaxLen] : Prod(sh) <= MaxSize}} :
        dims \in DimOrders}

\* the second vector component: A's axes and coordinates, other values, and
\* its last entry masked
VArray(a) == MkArray(a.dims, a.shape, a.coords[LAT_STR], Len(a.data), 100)

\* the n_lat and n_lon arguments; 0 is the default, False
Counts == {0, MaxCount}

\* a plain numpy array holding arr's latitude coordinate
BareLat(arr) ==
    [shape |-> <<Len(arr.coords[LAT_STR])>>, data |-> arr.coords[LAT_STR]]

\* the arrays of SpecLat: (lat, lon) arrays with one longitude and every
\* latitude coordinate of at most MaxLatLen values
LatValsFull == {-90, -45, 0, 45, 90}
LatArrays ==
    UNION {{MkArray(<<LAT_STR, LON_STR>>, <<n, 1>>, lat, 0, 0) :
              lat \in [1..n -> LatValsFull]} : n \in 1..MaxLatLen}

\* the array [[1, masked], [masked, 4]]
Example ==
    [dims   |-> <<LAT_STR, LON_STR>>,
     shape  |-> <<2, 2>>,
     coords |-> [d \in {LAT_STR, LON_STR} |->
                   IF d = LAT_STR THEN <<-45, 45>> ELSE Ticks(2)],
     data   |-> <<1, NaN, NaN, 4>>]

Init ==
    /\ A \in Arrays \cup {Example}
    /\ pc = "start"
    /\ arg = None
    /\ ret = None
    /\ self = None

\* fill_mask(A, fill_value)
FillMask ==
    /\ pc = "start"
    /\ \E fv \in FillValues :
        /\ arg' = [fill_value |-> fv]
        /\ ret' = fill_mask(A, fv)
    /\ pc' = "fill_mask"
    /\ UNCHANGED <<A, self>>

\* flag_flip_lat(A, t), or flag_flip_lat(<A's latitude coordinate>, t)
FlagFlipLat ==
    /\ pc = "start"
    /\ \E t \in BOOLEAN, bare \in BOOLEAN :
        /\ arg' = [out_north_to_south |-> t, bare |-> bare]
        /\ ret' = flag_flip_lat(IF bare THEN BareLat(A) ELSE A, t)
    /\ pc' = "flag_flip_lat"
    /\ UNCHANGED <<A, self>>

\* flip_lat_order(A, t)
FlipLatOrder ==
    /\ pc = "start"
    /\ \E t \in BOOLEAN :
        /\ arg' = [out_north_to_south |-> t]
        /\ ret' = flip_lat_order(A, t)
    /\ pc' = "flip_lat_order"
    /\ UNCHANGED <<A, self>>

\* flip_lat_order(<the result of flip_lat_order(A, t)>, t)
FlipLatOrderAgain ==
    /\ pc = "flip_lat_order"
    /\ ~IsExc(ret)
    /\ ret' = flip_lat_order(ret, arg.out_north_to_south)
    /\ pc' = "flip_lat_order_twice"
    /\ UNCHANGED <<A, arg, self>>

\* format_axes_for_spharm(A)
FormatAxes ==
    /\ pc = "start"
    /\ arg' = None
    /\ ret' = format_axes_for_spharm(A)
    /\ pc' = "format_axes_for_spharm"
    /\ UNCHANGED <<A, self>>

\* SpharmInterface(u, v, n_lat, n_lon) with u = A or None
Construct ==
    /\ pc = "start"
    /\ \E has_u \in BOOLEAN, has_v \in BOOLEAN, n_lat \in Counts, n_lon \in Counts :
        LET u   == IF has_u THEN A ELSE None
            v   == IF has_v THEN VArray(A) ELSE None
            obj == init(u, v, n_lat, n_lon)
        IN  /\ arg' = [u |-> u, v |-> v, n_lat |-> n_lat, n_lon |-> n_lon]
            /\ ret' = IF IsExc(obj) THEN obj ELSE None
            /\ self' = IF IsExc(obj) THEN None ELSE obj
            /\ pc' = IF IsExc(obj) THEN "init_raised" ELSE "init"
    /\ UNCHANGED A

\* self.to_xarray(ndarray, arr_orig) on an adapter built from both
\* components: ndarray is self.u = prep_for_spharm(u) with arr_orig left out
\* or u passed, or self.v = prep_for_spharm(v) with v passed
ToXarray ==
    /\ pc = "init"
    /\ ~IsNone(self._u) /\ ~IsNone(self._v)
    /\ \E orig \in {"default", "u", "v"} :
        LET x       == IF orig = "v" THEN self._v ELSE self._u
            ndarray == IF orig = "v" THEN self.v ELSE self.u
        IN  /\ arg' = [arr_orig |-> orig,
                       prep_flipped |-> flag_flip_lat(fill_mask(x, 0), TRUE).val,
                       restore_flipped |->
                           /\ ~IsExc(to_xarray_rolled(ndarray, x))
                           /\ to_xarray_flag(x).val]
            /\ ret' = to_xarray(self, ndarray, IF orig = "default" THEN None ELSE x)
    /\ pc' = "to_xarray"
    /\ UNCHANGED <<A, self>>

Next ==
    \/ FillMask
    \/ FlagFlipLat
    \/ FlipLatOrder
    \/ FlipLatOrderAgain
    \/ FormatAxes

Spec == Init /\ [][Next]_vars

\* the adapter: construction, then the way back
NextAdapter ==
    \/ Construct
    \/ ToXarray

SpecAdapter == Init /\ [][NextAdapter]_vars

\* the latitude-orientation operations on longer latitude coordinates
InitLat ==
    /\ A \in LatArrays
    /\ pc = "start"
    /\ arg = None
    /\ ret = None
    /\ self = None

NextLat ==
    \/ FlagFlipLat
    \/ FlipLatOrder
    \/ FlipLatOrderAgain

SpecLat == InitLat /\ [][NextLat]_vars

\* ---- properties ---------------------------------------------------------
\* the array to_xarray was asked to match
Orig == IF arg.arr_orig = "v" THEN self._v ELSE A

Positions(arr) == 1..Len(arr.data)
AxisLen(arr, name) == arr.shape[get_axis_num(arr, name) + 1]

\* C1: to_xarray(prep_for_spharm(X), X) completes and returns an array with
\* X's shape, dimension names and coordinates whose value at every unmasked
\* position is X's value there, whatever the positions of 'lat' and 'lon' and
\* the number of other axes.
C1_RoundTrip ==
    pc = "to_xarray" =>
        /\ ~IsExc(ret)
        /\ ret.shape = Orig.shape
        /\ ret.dims = Orig.dims
        /\ ret.coords = Orig.coords
        /\ \A p \in Positions(Orig) :
             Orig.data[p] # NaN => ret.data[p] = Orig.data[p]

\* C2: the array to_xarray returns is masked at exactly the positions that
\* are masked in arr_orig.
C2_MaskRestored ==
    (pc = "to_xarray" /\ ~IsExc(ret)) =>
        \A p \in Positions(Orig) : (ret.data[p] = NaN) <=> (Orig.data[p] = NaN)

StrictlyIncreasing(lat) == \A i \in 1..(Len(lat) - 1) : lat[i] < lat[i + 1]
StrictlyDecreasing(lat) == \A i \in 1..(Len(lat) - 1) : lat[i] > lat[i + 1]
NorthToSouth5 == <<90, 45, 0, -45, -90>>

\* C3: for a latitude coordinate of two or more values that runs one way,
\* flag_flip_lat is true exactly when its orientation (strictly increasing:
\* south-to-north) differs from the requested one; for latitudes
\* [90, 45, 0, -45, -90] flip_lat_order does not flip for the north-to-south
\* target and returns latitudes [-90, -45, 0, 45, 90] for the other.
C3_Orientation ==
    LET lat == A.coords[LAT_STR]
    IN  /\ (/\ pc = "flag_flip_lat"
            /\ ~arg.bare
            /\ Len(lat) >= 2
            /\ StrictlyIncreasing(lat) \/ StrictlyDecreasing(lat))
           => (/\ ~IsExc(ret)
               /\ ret.val = (StrictlyIncreasing(lat) <=> arg.out_north_to_south))
        /\ (pc = "flip_lat_order" /\ lat = NorthToSouth5)
           => IF arg.out_north_to_south
              THEN ret = A
              ELSE /\ ~IsExc(ret)
                   /\ ret.coords[LAT_STR] = Reverse(NorthToSouth5)
                   /\ ret.data = Reverse(A.data)

\* the entries of seq at the axes other than 'lat' and 'lon', in order
RECURSIVE OtherAxes(_, _, _)
OtherAxes(seq, dims, i) ==
    IF i > Len(dims) THEN <<>>
    ELSE (IF dims[i] \in {LAT_STR, LON_STR} THEN <<>> ELSE <<seq[i]>>)
         \o OtherAxes(seq, dims, i + 1)

\* C4: format_axes_for_spharm returns an array of shape (n_lat, n_lon,
\* n_other) whose entry [i, j, k] is the input's value at latitude index i,
\* longitude index j and the k-th combination of the other indices, taken in
\* the other axes' original order.
C4_ForwardLayout ==
    pc = "format_axes_for_spharm" =>
        LET other == OtherAxes(A.shape, A.dims, 1)
            want  == <<AxisLen(A, LAT_STR), AxisLen(A, LON_STR), Prod(other)>>
        IN  /\ ~IsExc(ret)
            /\ ret.shape = want
            /\ \A p \in Positions(A) :
                 LET idx == Unravel(p - 1, A.shape)
                     i   == idx[get_axis_num(A, LAT_STR) + 1]
                     j   == idx[get_axis_num(A, LON_STR) + 1]
                     k   == Ravel(OtherAxes(idx, A.dims, 1), other)
                 IN  ret.data[Ravel(<<i, j, k>>, want) + 1] = A.data[p]

Constructed == pc \in {"init", "init_raised"}
BothComponents == ~IsNone(arg.u) /\ ~IsNone(arg.v)
BothCounts == arg.n_lat # 0 /\ arg.n_lon # 0

\* C5: construction raises ValueError whenever neither both components nor
\* both counts are supplied, also when exactly one count or exactly one
\* component is.
C5_ConstructionCheck ==
    (Constructed /\ ~BothComponents /\ ~BothCounts) =>
        (pc = "init_raised" /\ ret = Raise("ValueError"))

FillMaskKeeps ==
    /\ ~IsExc(ret)
    /\ ret.shape = A.shape
    /\ ret.dims = A.dims
    /\ ret.coords = A.coords
    /\ \A p \in Positions(A) :
         /\ A.data[p] = NaN => ret.data[p] = arg.fill_value
         /\ A.data[p] # NaN => ret.data[p] = A.data[p]
         /\ ret.data[p] # NaN

\* C6 as stated: for every fill value, fill_mask keeps shape, dimension names
\* and coordinates, puts the fill value at every masked position, keeps every
\* other value, and leaves no position masked.
C6_MaskFillAnyValue ==
    pc = "fill_mask" => FillMaskKeeps

\* C6, amended: the same for every fill value other than NaN (which is the
\* missing value itself).
C6_MaskFill ==
    (pc = "fill_mask" /\ arg.fill_value # NaN) => FillMaskKeeps

\* [[1, masked], [masked, 4]] with fill value 0 has become [[1, 0], [0, 4]]
C6_Witness ==
    /\ pc = "fill_mask"
    /\ A = Example
    /\ arg.fill_value = 0
    /\ ret.data = <<1, 0, 0, 4>>

C8_DataDerivedCounts ==
    (Constructed /\ BothComponents) =>
        /\ pc = "init"
        /\ self.n_lat = AxisLen(arg.u, LAT_STR)
        /\ self.n_lon = AxisLen(arg.u, LON_STR)

\* C9: given a bare latitude coordinate sequence flag_flip_lat does not raise
\* and returns the decision it returns for a labeled array with that latitude
\* coordinate.
C9_BareCoordinate ==
    (pc = "flag_flip_lat" /\ arg.bare) =>
        /\ ~IsExc(ret)
        /\ ret = flag_flip_lat(A, arg.out_north_to_south)

====
